---- MODULE Spec2Model ----
(***************************************************************************)
(* A model of artemis.py: the time-lapse rig controller.                   *)
(*                                                                         *)
(* Durations are Python floats: IEEE-754 doubles, each operation rounded   *)
(* to the nearest value of 53 significant bits, ties to even.  A double    *)
(* is kept as a sign and a magnitude counted in units of 2^-56             *)
(* second, the magnitude in three limbs of 24 bits, least significant      *)
(* first.  Every double of magnitude 2^-4 or more is a whole number of     *)
(* units; the plan of a Configuration with frames <= 2560 has no other.    *)
(***************************************************************************)
EXTENDS Integers, Sequences, FiniteSets, TLC

\* ------------------------------------------------------------------------
\* Program constants
\* ------------------------------------------------------------------------

DefaultFrames == 5
DefaultInterval == 2
DefaultShutterIndex == 2
TimeToEnd == 160
MaxInterval == 30
MinInterval == 1
MinFrames == 1
CountdownStart == 5

\* ------------------------------------------------------------------------
\* Bounds of the model
\* ------------------------------------------------------------------------

\* frames has no ceiling in the code: the operator stops pressing + here.
MaxFrames == 6
\* The number of +/- handler invocations (key presses and auto-repeats)
\* the operator lets happen in one behaviour.
MaxEdits == 2

\* ------------------------------------------------------------------------
\* Shutter table
\* ------------------------------------------------------------------------

Frac(a, b)  == [kind |-> "frac",  a |-> a, b |-> b]   \* the string 'a/b'
Quote(a, b) == [kind |-> "quote", a |-> a, b |-> b]   \* the string 'a"b'
Num(a)      == [kind |-> "num",   a |-> a, b |-> 1]   \* the number a

shutter_values ==
    << Frac(1, 10), Frac(1, 8), Frac(1, 6), Frac(1, 5), Frac(1, 4),
       Quote(0, 3), Quote(0, 4), Quote(0, 5), Quote(0, 6), Quote(0, 8),
       Num(1), Quote(1, 3), Quote(1, 6), Num(2), Quote(2, 5), Num(3),
       Quote(3, 2), Num(4), Num(5), Num(6), Num(7), Num(8), Num(10),
       Num(13), Num(15), Num(20), Num(25), Num(30), Num(35), Num(40),
       Num(45), Num(50), Num(55), Num(60) >>

\* Python indexes from 0.
LastShutterIndex == Len(shutter_values) - 1
ShutterIndices == 0 .. LastShutterIndex

\* ------------------------------------------------------------------------
\* Double arithmetic
\* ------------------------------------------------------------------------

\* One limb holds 24 bits; the unit is 2^-56 second, so that 2^8 units in
\* the third limb are one second.  A double has 53 significant bits.
Base     == 2^24
Mantissa == 53

RECURSIVE Bits(_)
\* The number of bits of the natural n.
Bits(n) == IF n = 0 THEN 0 ELSE 1 + Bits(n \div 2)

BitLen(a) ==
    IF a[3] > 0 THEN 2 * 24 + Bits(a[3])
    ELSE IF a[2] > 0 THEN 24 + Bits(a[2])
    ELSE Bits(a[1])

BAdd(a, b) ==
    LET s1 == a[1] + b[1]
        s2 == a[2] + b[2] + s1 \div Base
    IN  <<s1 % Base, s2 % Base, a[3] + b[3] + s2 \div Base>>

\* a - b for a >= b.
BSub(a, b) ==
    LET d1 == a[1] - b[1]
        b1 == IF d1 < 0 THEN 1 ELSE 0
        d2 == a[2] - b[2] - b1
        b2 == IF d2 < 0 THEN 1 ELSE 0
    IN  <<d1 + b1 * Base, d2 + b2 * Base, a[3] - b[3] - b2>>

BLt(a, b) ==
    \/ a[3] < b[3]
    \/ a[3] = b[3] /\ a[2] < b[2]
    \/ a[3] = b[3] /\ a[2] = b[2] /\ a[1] < b[1]

\* Rounding to nearest, ties to even, of the magnitude a + g/Base (+ a
\* little more when sticky) to 53 significant bits.
Round53(a, g, sticky) ==
    LET len   == BitLen(a)
        d     == IF len > Mantissa THEN len - Mantissa ELSE 0
        p     == 2^d
        r     == a[1] % p
        keep  == <<a[1] - r, a[2], a[3]>>
        odd   == (a[1] \div p) % 2 = 1
        above == IF d = 0
                 THEN g > Base \div 2 \/ (g = Base \div 2 /\ sticky)
                 ELSE r > p \div 2 \/ (r = p \div 2 /\ (g > 0 \/ sticky))
        tie   == IF d = 0
                 THEN g = Base \div 2 /\ ~ sticky
                 ELSE r = p \div 2 /\ g = 0 /\ ~ sticky
    IN  IF above \/ (tie /\ odd) THEN BAdd(keep, <<p, 0, 0>>) ELSE keep

\* float(n) for an integer n of at most 8 bits.
FromInt(n) ==
    [neg |-> n < 0, mag |-> <<0, 0, (IF n < 0 THEN -n ELSE n) * 2^8>>]

\* float(n) / float(den) for 0 <= n < 2^8 and 0 < den < 2^7: long division
\* of n * 2^FracBits, one limb more for the rounding.
FDiv(n, den) ==
    LET t3 == n * 2^8
        t2 == (t3 % den) * Base
        t1 == (t2 % den) * Base
        tg == (t1 % den) * Base
    IN  [neg |-> FALSE,
         mag |-> Round53(<<t1 \div den, t2 \div den, t3 \div den>>,
                         tg \div den, tg % den # 0)]

FNeg(x) == IF x.mag = <<0, 0, 0>> THEN x ELSE [x EXCEPT !.neg = ~ x.neg]

\* x + y
FAdd(x, y) ==
    IF x.neg = y.neg
    THEN [neg |-> x.neg, mag |-> Round53(BAdd(x.mag, y.mag), 0, FALSE)]
    ELSE IF x.mag = y.mag
    THEN [neg |-> FALSE, mag |-> <<0, 0, 0>>]
    ELSE IF BLt(x.mag, y.mag)
    THEN [neg |-> y.neg, mag |-> Round53(BSub(y.mag, x.mag), 0, FALSE)]
    ELSE [neg |-> x.neg, mag |-> Round53(BSub(x.mag, y.mag), 0, FALSE)]

\* x - y
FSub(x, y) == FAdd(x, FNeg(y))

\* x < y
FLt(x, y) ==
    IF x.neg # y.neg THEN x.neg
    ELSE IF x.neg THEN BLt(y.mag, x.mag)
    ELSE BLt(x.mag, y.mag)

\* x > y
FGt(x, y) == FLt(y, x)

\* self.settle_time = 0.1
settle_time == FDiv(1, 10)

\* get_shutter_speed: 'a/b' is float(a)/float(b), 'a"b' is float('a.b'),
\* the decimal a.b rounded once; a number is itself.
get_shutter_speed(position) ==
    LET speed == shutter_values[position + 1]
    IN  CASE speed.kind = "frac"  -> FDiv(speed.a, speed.b)
          [] speed.kind = "quote" -> FDiv(speed.a * 10 + speed.b, 10)
          [] OTHER                -> FromInt(speed.a)

\* ------------------------------------------------------------------------
\* The interval plan
\* ------------------------------------------------------------------------

\* calculate_intervals without the cap on motor_pulse.
calculate_intervals_NoCap(fr, iv, si) ==
    LET pulse == FDiv(TimeToEnd, fr)
        speed == get_shutter_speed(si)
    IN  [motor_pulse   |-> pulse,
         shutter_speed |-> speed,
         sleep_time    |-> FSub(FSub(FromInt(iv), pulse), speed)]

\* calculate_intervals: the three fields it assigns.
calculate_intervals(fr, iv, si) ==
    LET pulse == FDiv(TimeToEnd, fr)
        speed == get_shutter_speed(si)
        cap   == FSub(FSub(FromInt(iv), speed), settle_time)
        mp    == IF FGt(pulse, cap) THEN cap ELSE pulse
    IN  [motor_pulse   |-> mp,
         shutter_speed |-> speed,
         sleep_time    |-> FSub(FSub(FromInt(iv), mp), speed)]

\* calculate_intervals on each Configuration within the limits, computed
\* once; outside them it is computed on the spot.
PlanDomain ==
    (MinFrames .. MaxFrames) \X (MinInterval .. MaxInterval) \X ShutterIndices
Plans ==
    [fr \in MinFrames .. MaxFrames, iv \in MinInterval .. MaxInterval,
     si \in ShutterIndices |-> calculate_intervals(fr, iv, si)]
PlanFor(fr, iv, si) ==
    IF <<fr, iv, si>> \in PlanDomain
    THEN Plans[<<fr, iv, si>>]
    ELSE calculate_intervals(fr, iv, si)

\* check_settings on the stored plan.
check_settings(sl, mp, iv) ==
    ~ (\/ FLt(sl, FromInt(0))
       \/ FGt(mp, FromInt(iv))
       \/ FGt(FAdd(mp, sl), FromInt(iv)))

\* ------------------------------------------------------------------------
\* Edit handlers and the configuration file
\* ------------------------------------------------------------------------

increase_interval_unguarded(iv) == iv + 1
decrease_interval_unguarded(iv) == iv - 1
increase_interval(iv) == IF iv # MaxInterval THEN iv + 1 ELSE iv
decrease_interval(iv) == IF iv > MinInterval THEN iv - 1 ELSE iv
increase_frames(fr)   == fr + 1
decrease_frames(fr)   == IF fr # MinFrames THEN fr - 1 ELSE fr
increase_speed(si)    == IF si < Len(shutter_values) - 1 THEN si + 1 ELSE si
decrease_speed(si)    == IF si > 0 THEN si - 1 ELSE si

\* The file ~/.artemisrc: <<>> when there is none, else <<record>>.
NoFile == << >>
\* The file as open(config_file, "w") leaves it until json.dump has written:
\* it exists and holds nothing.
EmptyFile == << << >> >>

\* save_config writing the interval under "frames" and the frames under
\* "interval".
save_config_swapped(fr, iv, si) ==
    << [frames |-> iv, interval |-> fr, shutter |-> si] >>

\* save_config: the record json.dump writes.
save_config(fr, iv, si) ==
    << [frames |-> fr, interval |-> iv, shutter |-> si] >>

\* load_config: the fields after __init__ set the defaults and read the file
\* (json.load raises ValueError on an empty file: the defaults stay).
load_config(file) ==
    IF file \in {NoFile, EmptyFile}
    THEN [frames |-> DefaultFrames, interval |-> DefaultInterval,
          shutter_index |-> DefaultShutterIndex]
    ELSE [frames |-> file[1].frames, interval |-> file[1].interval,
          shutter_index |-> file[1].shutter]

\* Records save_config wrote in an earlier session: a sample of the
\* configurations within bounds.  Three corners: every field at its lower
\* limit; the most frames at the longest interval and shortest exposure
\* (the one plan here whose motor_pulse is not capped); one frame at the
\* longest interval and exposure.  And the spec's scenario B: 5 frames
\* every 2 s with an exposure of 2 s (the defaults, started from with no
\* file, are 5 frames every 2 s with a capped motor_pulse, as scenario A).
SavedConfigs ==
    { [frames |-> MinFrames, interval |-> MinInterval, shutter |-> 0],
      [frames |-> MaxFrames, interval |-> MaxInterval, shutter |-> 0],
      [frames |-> MinFrames, interval |-> MaxInterval,
       shutter |-> LastShutterIndex],
      [frames |-> DefaultFrames, interval |-> DefaultInterval,
       shutter |-> DefaultShutterIndex + 11] }

\* The file found at start: none, one an interrupted save_config left
\* empty, or a record.
InitFiles == {NoFile, EmptyFile} \cup { <<c>> : c \in SavedConfigs }

\* ------------------------------------------------------------------------
\* State
\* ------------------------------------------------------------------------

VARIABLES
    frames, interval, shutter_index,          \* the Configuration
    shutter_speed, motor_pulse, sleep_time,   \* the stored plan
    frame,                                    \* self.frame
    screen,                                   \* self.screen: a list of tasks
    run, wait_for_key, run_timelapse,         \* the three flags
    active, key_handler,                      \* Display.active, .key_handler
    shutter_pin, motor_pin,                   \* the level of each output pin
    config_file,                              \* the persisted record
    mpc, threads, started, pool,              \* main thread: position, the
                                              \* argument of start_threads,
                                              \* threads started, to join
    raised_at,                                \* where in start_threads the
                                              \* KeyboardInterrupt main
                                              \* caught was raised ("none":
                                              \* none caught)
    pc, pause,                                \* each thread's position; the
                                              \* countdown's local
    key, invoked,                             \* the poll of this step: key
                                              \* read, handler called ("none")
    cancelled, shots, moves,                  \* this run: a cancel key was
                                              \* handled; shutter and motor
                                              \* pulses begun
    edits                                     \* +/- invocations so far

config == <<frames, interval, shutter_index>>
plan   == <<shutter_speed, motor_pulse, sleep_time>>
flags  == <<run, wait_for_key, run_timelapse>>
disp   == <<active, key_handler>>
pins   == <<shutter_pin, motor_pin>>
mainv  == <<mpc, threads, started, pool, raised_at>>
runh   == <<cancelled, shots, moves>>

vars == <<frames, interval, shutter_index, shutter_speed, motor_pulse,
          sleep_time, frame, screen, run, wait_for_key, run_timelapse,
          active, key_handler, shutter_pin, motor_pin, config_file,
          mpc, threads, started, pool, raised_at, pc, pause, key, invoked,
          cancelled, shots, moves, edits>>

Keys == {"A", "B", "C", "D"}
NoKey == "none"
NoHandler == "False"

NavTasks == {"main_screen", "edit_interval", "edit_frames", "edit_speed"}
RunSet   == <<"shoot_timelapse", "stop_timelapse">>
MainSet  == <<"main_screen">>

ThreadIds == 1 .. 2
Finished  == {"done", "crashed"}
Alive(i)  == pc[i] \notin {"none", "done", "crashed", "killed"}

\* Artemis.__init__ with the file found at start and the plan p stored:
\* defaults, load_config, the plan, the flags; e of the +/- calls the operator
\* is allowed count as used already.
InitEdits(file, p, e) ==
    LET c == load_config(file)
    IN  /\ config_file = file
        /\ frames = c.frames
        /\ interval = c.interval
        /\ shutter_index = c.shutter_index
        /\ shutter_speed = p.shutter_speed
        /\ motor_pulse = p.motor_pulse
        /\ sleep_time = p.sleep_time
        /\ frame = 1
        /\ screen = MainSet
        /\ run = TRUE
        /\ wait_for_key = TRUE
        /\ run_timelapse = TRUE
        /\ active = NoHandler
        /\ key_handler = << >>
        /\ shutter_pin = "LOW"
        /\ motor_pin = "LOW"
        /\ mpc = "while_run"
        /\ threads = << >>
        /\ started = 0
        /\ pool = << >>
        /\ raised_at = "none"
        /\ pc = [i \in ThreadIds |-> "none"]
        /\ pause = 0
        /\ key = NoKey
        /\ invoked = "none"
        /\ cancelled = FALSE
        /\ shots = 0
        /\ moves = 0
        /\ edits = e

\* The operator has made no +/- call yet.
InitWith(file, p) == InitEdits(file, p, 0)

\* The plan __init__ stores: calculate_intervals on the loaded fields.
InitPlan(file) ==
    LET c == load_config(file)
    IN  calculate_intervals(c.frames, c.interval, c.shutter_index)

Init == \E file \in InitFiles : InitWith(file, InitPlan(file))

\* ------------------------------------------------------------------------
\* The main thread: Artemis.main and start_threads
\* ------------------------------------------------------------------------

\* while self.run: start_threads(self.screen) binds threads to the list.
MainLoop ==
    /\ mpc = "while_run"
    /\ IF run
       THEN /\ mpc' = "starting"
            /\ threads' = screen
            /\ started' = 0
            /\ pool' = << >>
            /\ pc' = [i \in ThreadIds |-> "none"]
            /\ cancelled' = FALSE
            /\ shots' = 0
            /\ moves' = 0
       ELSE /\ mpc' = "exited"
            /\ UNCHANGED <<threads, started, pool, pc, runh>>
    /\ key' = NoKey
    /\ invoked' = "none"
    /\ UNCHANGED <<config, plan, frame, screen, flags, disp, pins,
                   config_file, raised_at, pause, edits>>

\* for thread in threads: t.start() is one step and pool.append(t) the
\* next; the threads started so far run in between.
MainStart ==
    /\ mpc = "starting"
    /\ IF Len(pool) = started
       THEN /\ started < Len(threads)
            /\ started' = started + 1
            /\ pc' = [pc EXCEPT ![started + 1] = "begin"]
            /\ UNCHANGED <<pool, mpc>>
       ELSE /\ pool' = Append(pool, started)
            /\ mpc' = IF started = Len(threads) THEN "joining"
                      ELSE "starting"
            /\ UNCHANGED <<started, pc>>
    /\ key' = NoKey
    /\ invoked' = "none"
    /\ UNCHANGED <<config, plan, frame, screen, flags, disp, pins,
                   config_file, threads, raised_at, pause, runh, edits>>

\* Removing the first thread left without waiting for it.
MainJoin_NoWait ==
    /\ mpc = "joining"
    /\ pool # << >>
    /\ pool' = Tail(pool)
    /\ key' = NoKey
    /\ invoked' = "none"
    /\ UNCHANGED <<config, plan, frame, screen, flags, disp, pins,
                   config_file, mpc, threads, started, raised_at, pc, pause,
                   runh, edits>>

\* while pool: join the first thread left, remove it.
MainJoin ==
    /\ mpc = "joining"
    /\ pool # << >>
    /\ pc[Head(pool)] \in Finished
    /\ pool' = Tail(pool)
    /\ key' = NoKey
    /\ invoked' = "none"
    /\ UNCHANGED <<config, plan, frame, screen, flags, disp, pins,
                   config_file, mpc, threads, started, raised_at, pc, pause,
                   runh, edits>>

\* while pool: finds the pool empty; start_threads returns, the try of main
\* is left and main is back at while self.run.
MainReturn ==
    /\ mpc = "joining"
    /\ pool = << >>
    /\ mpc' = "while_run"
    /\ key' = NoKey
    /\ invoked' = "none"
    /\ UNCHANGED <<config, plan, frame, screen, flags, disp, pins,
                   config_file, threads, started, pool, raised_at, pc, pause,
                   runh, edits>>

\* KeyboardInterrupt.  Inside the try (start_threads, up to its return) the
\* except clause takes it.  At `while self.run:`, and inside the except
\* clause itself (a second signal), nothing catches it: it leaves main
\* uncaught and the process ends with a traceback, the flags as they are,
\* the daemon threads with it.
MainInterrupt ==
    /\ mpc \in {"while_run", "starting", "joining", "caught", "except",
                "sys_exit"}
    /\ IF mpc \in {"starting", "joining"}
       THEN /\ mpc' = "caught"
            /\ raised_at' = mpc
            /\ UNCHANGED pc
       ELSE /\ mpc' = "uncaught"
            /\ pc' = [i \in ThreadIds |->
                         IF Alive(i) THEN "killed" ELSE pc[i]]
            /\ UNCHANGED raised_at
    /\ key' = NoKey
    /\ invoked' = "none"
    /\ UNCHANGED <<config, plan, frame, screen, flags, disp, pins,
                   config_file, threads, started, pool, pause, runh, edits>>

\* except KeyboardInterrupt: self.run = False
MainExceptRun ==
    /\ mpc = "caught"
    /\ run' = FALSE
    /\ mpc' = "except"
    /\ key' = NoKey
    /\ invoked' = "none"
    /\ UNCHANGED <<config, plan, frame, screen, wait_for_key, run_timelapse,
                   disp, pins, config_file, threads, started, pool,
                   raised_at, pc, pause, runh, edits>>

\* self.run_timelapse = False
MainExcept ==
    /\ mpc = "except"
    /\ run_timelapse' = FALSE
    /\ mpc' = "sys_exit"
    /\ key' = NoKey
    /\ invoked' = "none"
    /\ UNCHANGED <<config, plan, frame, screen, run, wait_for_key, disp,
                   pins, config_file, threads, started, pool, raised_at, pc,
                   pause, runh, edits>>

\* sys.exit(): the daemon threads die with the process, wherever they are.
MainExit ==
    /\ mpc = "sys_exit"
    /\ mpc' = "exited"
    /\ pc' = [i \in ThreadIds |-> IF Alive(i) THEN "killed" ELSE pc[i]]
    /\ key' = NoKey
    /\ invoked' = "none"
    /\ UNCHANGED <<config, plan, frame, screen, flags, disp, pins,
                   config_file, threads, started, pool, raised_at, pause,
                   runh, edits>>

\* ------------------------------------------------------------------------
\* The display: register_keys and get_key
\* ------------------------------------------------------------------------

\* KeyMap with key A of EditInterval bound to set_edit_speed_screen.
KeyMap_SkipsFrames(task) ==
    CASE task = "main_screen" ->
           [A |-> "set_edit_interval_screen", C |-> "set_shoot_timelapse"]
      [] task = "edit_interval" ->
           [A |-> "set_edit_speed_screen", C |-> "increase_interval",
            D |-> "decrease_interval"]
      [] task = "edit_frames" ->
           [A |-> "set_edit_speed_screen", C |-> "increase_frames",
            D |-> "decrease_frames"]
      [] task = "edit_speed" ->
           [A |-> "set_main_screen", C |-> "increase_speed",
            D |-> "decrease_speed"]
      [] OTHER ->
           [C |-> "set_stop_timelapse"]

\* The dict each screen hands to register_keys.
KeyMap(task) ==
    CASE task = "main_screen" ->
           [A |-> "set_edit_interval_screen", C |-> "set_shoot_timelapse"]
      [] task = "edit_interval" ->
           [A |-> "set_edit_frames_screen", C |-> "increase_interval",
            D |-> "decrease_interval"]
      [] task = "edit_frames" ->
           [A |-> "set_edit_speed_screen", C |-> "increase_frames",
            D |-> "decrease_frames"]
      [] task = "edit_speed" ->
           [A |-> "set_main_screen", C |-> "increase_speed",
            D |-> "decrease_speed"]
      [] OTHER ->
           [C |-> "set_stop_timelapse"]

EditHandlers == {"increase_interval", "decrease_interval", "increase_frames",
                 "decrease_frames", "increase_speed", "decrease_speed"}
SavingHandlers == {"set_edit_frames_screen", "set_edit_speed_screen",
                   "set_main_screen"}

\* What a handler returns, as get_key's caller tests it: True, or None.
HandlerResult(h) ==
    h \in {"set_edit_frames_screen", "set_edit_speed_screen",
           "set_main_screen", "set_stop_timelapse"}

\* get_key without the key-up branch: a key read while a handler is active
\* is dispatched like a first press.
get_key_NoKeyUp(k, act, handlers) ==
    IF k = NoKey
    THEN IF act # NoHandler
         THEN [active |-> act, call |-> act]
         ELSE [active |-> act, call |-> "none"]
    ELSE IF k \in DOMAIN handlers
         THEN [active |-> handlers[k], call |-> handlers[k]]
         ELSE [active |-> act, call |-> "none"]

\* One pass of get_key's loop after getKey() read k: the new Display.active
\* and the handler called ("none": nothing is called, the loop goes on).
get_key(k, act, handlers) ==
    IF k = NoKey
    THEN IF act # NoHandler
         THEN [active |-> act, call |-> act]
         ELSE [active |-> act, call |-> "none"]
    ELSE IF act = NoHandler
         THEN IF k \in DOMAIN handlers
              THEN [active |-> handlers[k], call |-> handlers[k]]
              ELSE [active |-> act, call |-> "none"]
         ELSE [active |-> NoHandler, call |-> "none"]

\* Where the caller of get_key goes with its result.
AfterGetKey(task, result) ==
    CASE task = "main_screen"    -> "done"
      [] task = "stop_timelapse" -> IF result THEN "w_set" ELSE "w_while"
      [] OTHER                   -> IF result THEN "done" ELSE "gk_while"

\* The positions of a thread inside a handler get_key has called: at its
\* first line; in save_config with the file opened for writing; back from
\* save_config; in set_main_screen back from calculate_intervals.
HandlerPcs == {"h_call", "h_dump", "h_saved", "h_screen"}

\* The assignments of handler h other than those of save_config and
\* calculate_intervals.
Invoke(h) ==
    /\ interval' = CASE h = "increase_interval" -> increase_interval(interval)
                     [] h = "decrease_interval" -> decrease_interval(interval)
                     [] OTHER -> interval
    /\ frames' = CASE h = "increase_frames" -> increase_frames(frames)
                   [] h = "decrease_frames" -> decrease_frames(frames)
                   [] OTHER -> frames
    /\ shutter_index' =
           CASE h = "increase_speed" -> increase_speed(shutter_index)
             [] h = "decrease_speed" -> decrease_speed(shutter_index)
             [] OTHER -> shutter_index
    /\ screen' = CASE h = "set_edit_interval_screen" -> <<"edit_interval">>
                   [] h = "set_shoot_timelapse"      -> RunSet
                   [] h = "set_edit_frames_screen"   -> <<"edit_frames">>
                   [] h = "set_edit_speed_screen"    -> <<"edit_speed">>
                   [] h = "set_main_screen"          -> MainSet
                   [] OTHER -> screen
    /\ run_timelapse' = IF h = "set_stop_timelapse" THEN FALSE
                        ELSE run_timelapse
    /\ cancelled' = IF h = "set_stop_timelapse" THEN TRUE ELSE cancelled
    /\ edits' = IF h \in EditHandlers THEN edits + 1 ELSE edits

\* register_keys at the head of a screen or of stop_timelapse.
RegisterKeys(i) ==
    /\ pc[i] = "begin"
    /\ threads[i] # "shoot_timelapse"
    /\ active' = NoHandler
    /\ key_handler' = KeyMap(threads[i])
    /\ pc' = [pc EXCEPT ![i] = IF threads[i] = "stop_timelapse"
                               THEN "w_while" ELSE "gk_while"]
    /\ key' = NoKey
    /\ invoked' = "none"
    /\ UNCHANGED <<config, plan, frame, screen, flags, pins, config_file,
                   mainv, pause, runh, edits>>

\* get_key: while artemis.wait_for_key; falling off the loop returns None.
GetKeyWhile(i) ==
    /\ pc[i] = "gk_while"
    /\ pc' = [pc EXCEPT ![i] = IF wait_for_key THEN "gk_poll"
                               ELSE AfterGetKey(threads[i], FALSE)]
    /\ key' = NoKey
    /\ invoked' = "none"
    /\ UNCHANGED <<config, plan, frame, screen, flags, disp, pins,
                   config_file, mainv, pause, runh, edits>>

\* get_key: sleep(.1), key = getKey(), the dispatch, and the call of the
\* handler up to its first line.  The operator lets at most MaxEdits +/-
\* calls happen and stops at MaxFrames.
GetKeyPoll(i, k) ==
    /\ pc[i] = "gk_poll"
    /\ LET d == get_key(k, active, key_handler)
       IN  /\ d.call \in EditHandlers => edits < MaxEdits
           /\ d.call = "increase_frames" => frames < MaxFrames
           /\ active' = d.active
           /\ key' = k
           /\ invoked' = d.call
           /\ pc' = [pc EXCEPT ![i] = IF d.call = "none" THEN "gk_while"
                                      ELSE "h_call"]
    /\ UNCHANGED <<config, plan, frame, screen, flags, key_handler, pins,
                   config_file, mainv, pause, runh, edits>>

\* save_config: open(self.config_file, "w") creates or truncates the file.
SaveOpen(i) ==
    /\ pc[i] = "h_call"
    /\ active \in SavingHandlers
    /\ config_file' = EmptyFile
    /\ pc' = [pc EXCEPT ![i] = "h_dump"]
    /\ key' = NoKey
    /\ invoked' = "none"
    /\ UNCHANGED <<config, plan, frame, screen, flags, disp, pins, mainv,
                   pause, runh, edits>>

\* save_config: json.dump writes the record and the file is closed.
SaveDump(i) ==
    /\ pc[i] = "h_dump"
    /\ config_file' = save_config(frames, interval, shutter_index)
    /\ pc' = [pc EXCEPT ![i] = "h_saved"]
    /\ key' = NoKey
    /\ invoked' = "none"
    /\ UNCHANGED <<config, plan, frame, screen, flags, disp, pins, mainv,
                   pause, runh, edits>>

\* set_main_screen going on from save_config with the stored plan as it is.
HandlerRecalc_KeepsPlan(i) ==
    /\ pc[i] = "h_saved"
    /\ active = "set_main_screen"
    /\ pc' = [pc EXCEPT ![i] = "h_screen"]
    /\ key' = NoKey
    /\ invoked' = "none"
    /\ UNCHANGED <<config, plan, frame, screen, flags, disp, pins,
                   config_file, mainv, pause, runh, edits>>

\* set_main_screen: self.calculate_intervals()
HandlerRecalc(i) ==
    /\ pc[i] = "h_saved"
    /\ active = "set_main_screen"
    /\ LET p == PlanFor(frames, interval, shutter_index)
       IN  /\ motor_pulse' = p.motor_pulse
           /\ shutter_speed' = p.shutter_speed
           /\ sleep_time' = p.sleep_time
    /\ pc' = [pc EXCEPT ![i] = "h_screen"]
    /\ key' = NoKey
    /\ invoked' = "none"
    /\ UNCHANGED <<config, frame, screen, flags, disp, pins, config_file,
                   mainv, pause, runh, edits>>

\* The rest of the handler (the whole of it when it does not save): its
\* assignment, and its return through get_key to the caller.
HandlerBody(i) ==
    /\ \/ pc[i] = "h_call" /\ active \notin SavingHandlers
       \/ pc[i] = "h_saved" /\ active # "set_main_screen"
       \/ pc[i] = "h_screen"
    /\ Invoke(active)
    /\ pc' = [pc EXCEPT ![i] =
                 AfterGetKey(threads[i], HandlerResult(active))]
    /\ key' = NoKey
    /\ invoked' = "none"
    /\ UNCHANGED <<plan, frame, run, wait_for_key, disp, pins, config_file,
                   mainv, pause, shots, moves>>

\* ------------------------------------------------------------------------
\* The watcher: stop_timelapse
\* ------------------------------------------------------------------------

\* while self.run_timelapse:
WatcherWhile(i) ==
    /\ pc[i] = "w_while"
    /\ pc' = [pc EXCEPT ![i] = IF run_timelapse THEN "gk_while" ELSE "w_set"]
    /\ key' = NoKey
    /\ invoked' = "none"
    /\ UNCHANGED <<config, plan, frame, screen, flags, disp, pins,
                   config_file, mainv, pause, runh, edits>>

\* self.wait_for_key = True; return True
WatcherSet(i) ==
    /\ pc[i] = "w_set"
    /\ wait_for_key' = TRUE
    /\ pc' = [pc EXCEPT ![i] = "done"]
    /\ key' = NoKey
    /\ invoked' = "none"
    /\ UNCHANGED <<config, plan, frame, screen, run, run_timelapse, disp,
                   pins, config_file, mainv, pause, runh, edits>>

\* ------------------------------------------------------------------------
\* The runner: shoot_timelapse, take_photo, move_camera
\* ------------------------------------------------------------------------

\* time.sleep(t) raises ValueError for a negative t: the thread dies there.
SleepRaises(t) == FLt(t, FromInt(0))

\* RunnerCheck with the refusal leaving the running flag as it is.
RunnerCheck_KeepsFlag(i) ==
    /\ pc[i] = "begin"
    /\ threads[i] = "shoot_timelapse"
    /\ IF check_settings(sleep_time, motor_pulse, interval)
       THEN /\ pc' = [pc EXCEPT ![i] = "countdown"]
            /\ pause' = CountdownStart
            /\ UNCHANGED screen
       ELSE /\ screen' = MainSet
            /\ pc' = [pc EXCEPT ![i] = "done"]
            /\ UNCHANGED pause
    /\ key' = NoKey
    /\ invoked' = "none"
    /\ UNCHANGED <<config, plan, frame, flags, disp, pins, config_file,
                   mainv, runh, edits>>

\* if not self.check_settings(): refuse; else delayed_start() begins.
RunnerCheck(i) ==
    /\ pc[i] = "begin"
    /\ threads[i] = "shoot_timelapse"
    /\ IF check_settings(sleep_time, motor_pulse, interval)
       THEN /\ pc' = [pc EXCEPT ![i] = "countdown"]
            /\ pause' = CountdownStart
            /\ UNCHANGED <<run_timelapse, screen>>
       ELSE /\ run_timelapse' = FALSE
            /\ screen' = MainSet
            /\ pc' = [pc EXCEPT ![i] = "done"]
            /\ UNCHANGED pause
    /\ key' = NoKey
    /\ invoked' = "none"
    /\ UNCHANGED <<config, plan, frame, run, wait_for_key, disp, pins,
                   config_file, mainv, runh, edits>>

\* delayed_start: one pass of while pause > 0 (show, sleep(1), pause -= 1).
RunnerCountdown(i) ==
    /\ pc[i] = "countdown"
    /\ pause > 0
    /\ pause' = pause - 1
    /\ pc' = [pc EXCEPT ![i] = IF pause - 1 > 0 THEN "countdown"
                               ELSE "r_start"]
    /\ key' = NoKey
    /\ invoked' = "none"
    /\ UNCHANGED <<config, plan, frame, screen, flags, disp, pins,
                   config_file, mainv, runh, edits>>

\* self.frame = 1; self.run_timelapse = True
RunnerStart(i) ==
    /\ pc[i] = "r_start"
    /\ frame' = 1
    /\ run_timelapse' = TRUE
    /\ pc' = [pc EXCEPT ![i] = "r_loop"]
    /\ key' = NoKey
    /\ invoked' = "none"
    /\ UNCHANGED <<config, plan, screen, run, wait_for_key, disp, pins,
                   config_file, mainv, pause, runh, edits>>

\* while self.run_timelapse:
RunnerLoop(i) ==
    /\ pc[i] = "r_loop"
    /\ pc' = [pc EXCEPT ![i] = IF run_timelapse THEN "r_high" ELSE "r_exit"]
    /\ key' = NoKey
    /\ invoked' = "none"
    /\ UNCHANGED <<config, plan, frame, screen, flags, disp, pins,
                   config_file, mainv, pause, runh, edits>>

\* take_photo: digitalWrite(shutter_pin, HIGH)
ShutterHigh(i) ==
    /\ pc[i] = "r_high"
    /\ shutter_pin' = "HIGH"
    /\ shots' = shots + 1
    /\ pc' = [pc EXCEPT ![i] = "exposing"]
    /\ key' = NoKey
    /\ invoked' = "none"
    /\ UNCHANGED <<config, plan, frame, screen, flags, disp, motor_pin,
                   config_file, mainv, pause, cancelled, moves, edits>>

\* take_photo: sleep(shutter_speed); digitalWrite(shutter_pin, LOW)
ShutterLow(i) ==
    /\ pc[i] = "exposing"
    /\ shutter_pin' = "LOW"
    /\ pc' = [pc EXCEPT ![i] = "r_inc"]
    /\ key' = NoKey
    /\ invoked' = "none"
    /\ UNCHANGED <<config, plan, frame, screen, flags, disp, motor_pin,
                   config_file, mainv, pause, runh, edits>>

\* self.frame += 1, then the two tests on it: past the last frame; frame 1
\* (sleep(motor_pulse) and continue); else move_camera comes next.
RunnerInc(i) ==
    /\ pc[i] = "r_inc"
    /\ frame' = frame + 1
    /\ pc' = [pc EXCEPT ![i] =
                 IF frame + 1 > frames THEN "r_fin1"
                 ELSE IF frame + 1 = 1
                      THEN IF SleepRaises(motor_pulse) THEN "crashed"
                           ELSE "r_loop"
                      ELSE "m_high"]
    /\ key' = NoKey
    /\ invoked' = "none"
    /\ UNCHANGED <<config, plan, screen, flags, disp, pins, config_file,
                   mainv, pause, runh, edits>>

\* self.run_timelapse = False
RunnerFin1(i) ==
    /\ pc[i] = "r_fin1"
    /\ run_timelapse' = FALSE
    /\ pc' = [pc EXCEPT ![i] = "r_fin2"]
    /\ key' = NoKey
    /\ invoked' = "none"
    /\ UNCHANGED <<config, plan, frame, screen, run, wait_for_key, disp,
                   pins, config_file, mainv, pause, runh, edits>>

\* The end of the last frame without the write of wait_for_key.
RunnerFin2_KeepsWaiting(i) ==
    /\ pc[i] = "r_fin2"
    /\ pc' = [pc EXCEPT ![i] = "r_exit"]
    /\ key' = NoKey
    /\ invoked' = "none"
    /\ UNCHANGED <<config, plan, frame, screen, flags, disp, pins,
                   config_file, mainv, pause, runh, edits>>

\* self.wait_for_key = False; break
RunnerFin2(i) ==
    /\ pc[i] = "r_fin2"
    /\ wait_for_key' = FALSE
    /\ pc' = [pc EXCEPT ![i] = "r_exit"]
    /\ key' = NoKey
    /\ invoked' = "none"
    /\ UNCHANGED <<config, plan, frame, screen, run, run_timelapse, disp,
                   pins, config_file, mainv, pause, runh, edits>>

\* move_camera: digitalWrite(motor_pin, HIGH)
MotorHigh(i) ==
    /\ pc[i] = "m_high"
    /\ motor_pin' = "HIGH"
    /\ moves' = moves + 1
    /\ pc' = [pc EXCEPT ![i] = "moving"]
    /\ key' = NoKey
    /\ invoked' = "none"
    /\ UNCHANGED <<config, plan, frame, screen, flags, disp, shutter_pin,
                   config_file, mainv, pause, cancelled, shots, edits>>

\* move_camera: sleep(motor_pulse); digitalWrite(motor_pin, LOW);
\* sleep(settle_time)
MotorLow(i) ==
    /\ pc[i] = "moving"
    /\ IF SleepRaises(motor_pulse)
       THEN /\ pc' = [pc EXCEPT ![i] = "crashed"]
            /\ UNCHANGED motor_pin
       ELSE /\ pc' = [pc EXCEPT ![i] = "r_sleep"]
            /\ motor_pin' = "LOW"
    /\ key' = NoKey
    /\ invoked' = "none"
    /\ UNCHANGED <<config, plan, frame, screen, flags, disp, shutter_pin,
                   config_file, mainv, pause, runh, edits>>

\* time.sleep(self.sleep_time), back to the head of the loop
RunnerSleep(i) ==
    /\ pc[i] = "r_sleep"
    /\ pc' = [pc EXCEPT ![i] = IF SleepRaises(sleep_time) THEN "crashed"
                               ELSE "r_loop"]
    /\ key' = NoKey
    /\ invoked' = "none"
    /\ UNCHANGED <<config, plan, frame, screen, flags, disp, pins,
                   config_file, mainv, pause, runh, edits>>

\* self.screen = [self.main_screen]; return True
RunnerExit(i) ==
    /\ pc[i] = "r_exit"
    /\ screen' = MainSet
    /\ pc' = [pc EXCEPT ![i] = "done"]
    /\ key' = NoKey
    /\ invoked' = "none"
    /\ UNCHANGED <<config, plan, frame, flags, disp, pins, config_file,
                   mainv, pause, runh, edits>>

\* ------------------------------------------------------------------------
\* The specification
\* ------------------------------------------------------------------------

ThreadStep(i) ==
    \/ RegisterKeys(i)
    \/ GetKeyWhile(i)
    \/ \E k \in Keys \cup {NoKey} : GetKeyPoll(i, k)
    \/ SaveOpen(i)
    \/ SaveDump(i)
    \/ HandlerRecalc(i)
    \/ HandlerBody(i)
    \/ WatcherWhile(i)
    \/ WatcherSet(i)
    \/ RunnerCheck(i)
    \/ RunnerCountdown(i)
    \/ RunnerStart(i)
    \/ RunnerLoop(i)
    \/ ShutterHigh(i)
    \/ ShutterLow(i)
    \/ RunnerInc(i)
    \/ RunnerFin1(i)
    \/ RunnerFin2(i)
    \/ MotorHigh(i)
    \/ MotorLow(i)
    \/ RunnerSleep(i)
    \/ RunnerExit(i)

Next ==
    \/ MainLoop
    \/ MainStart
    \/ MainJoin
    \/ MainReturn
    \/ MainInterrupt
    \/ MainExceptRun
    \/ MainExcept
    \/ MainExit
    \/ \E i \in ThreadIds : ThreadStep(i)

Spec == Init /\ [][Next]_vars

\* Fair scheduling: the coordinator and every started thread keep taking
\* their steps.  Nothing obliges the operator to press a key (a poll may
\* always read no key) or to send the terminate signal.
Fairness ==
    /\ WF_vars(MainLoop \/ MainStart \/ MainJoin \/ MainReturn
               \/ MainExceptRun \/ MainExcept \/ MainExit)
    /\ \A i \in ThreadIds : WF_vars(ThreadStep(i))

\* Runs without menu edits (the operator presses no + or - in an edit
\* screen), from no file (the defaults) or from a saved Configuration whose
\* exposure fills the interval, under fair scheduling.
RunFiles ==
    {NoFile,
     save_config(DefaultFrames, DefaultInterval, DefaultShutterIndex + 11)}
InitRuns == \E file \in RunFiles : InitEdits(file, InitPlan(file), MaxEdits)
SpecRunsFair == InitRuns /\ [][Next]_vars /\ Fairness

\* Arming from every Configuration: the program started with any saved
\* Configuration of frames in MinFrames..MaxFrames, interval in
\* MinInterval..MaxInterval and any shutter index, then key C on Main, up to
\* the runner's feasibility test.
AllFiles ==
    { save_config(fr, iv, si) : fr \in MinFrames..MaxFrames,
                                iv \in MinInterval..MaxInterval,
                                si \in ShutterIndices }
InitAllConfigs == \E file \in AllFiles : InitWith(file, InitPlan(file))
ArmStep(i) ==
    \/ RegisterKeys(i)
    \/ GetKeyWhile(i)
    \/ GetKeyPoll(i, "C")
    \/ HandlerBody(i)
    \/ RunnerCheck(i)
NextArm ==
    \/ MainLoop
    \/ MainStart
    \/ MainJoin
    \/ MainReturn
    \/ \E i \in ThreadIds : ArmStep(i)
SpecAllConfigs == InitAllConfigs /\ [][NextArm]_vars

\* The runner entered with any stored plan: the plan __init__ computed, or
\* one of three plans that each fail one test of check_settings (no plan
\* calculate_intervals stores fails any of them).
FailingPlans(file) ==
    LET c == load_config(file)
        speed == get_shutter_speed(c.shutter_index)
    IN  { [motor_pulse |-> FromInt(0), shutter_speed |-> speed,
           sleep_time |-> FromInt(-1)],
          [motor_pulse |-> FromInt(c.interval + 1),
           shutter_speed |-> speed, sleep_time |-> FromInt(0)],
          [motor_pulse |-> FromInt(c.interval),
           shutter_speed |-> speed, sleep_time |-> FromInt(1)] }

InitAnyPlan ==
    \E file \in InitFiles :
        \E p \in {InitPlan(file)} \cup FailingPlans(file) : InitWith(file, p)

SpecAnyPlan == InitAnyPlan /\ [][Next]_vars

\* ------------------------------------------------------------------------
\* Properties
\* ------------------------------------------------------------------------

InRun     == threads = RunSet
RunnerPc  == IF InRun THEN pc[1] ELSE "none"
WatcherPc == IF InRun THEN pc[2] ELSE "none"

\* The runner is in its countdown or in its shooting loop.
RunnerBusy ==
    RunnerPc \in {"countdown", "r_start", "r_loop", "r_high", "exposing",
                  "r_inc", "r_fin1", "r_fin2", "m_high", "moving",
                  "r_sleep"}

StoredPlanFeasible == check_settings(sleep_time, motor_pulse, interval)

\* C1: once the watcher has handled a cancel key in this run, the runner's
\* test at the head of its loop never again lets an exposure start.
C1_CancelStopsRunner ==
    [][(cancelled /\ RunnerPc = "r_loop") => RunnerPc' # "r_high"]_vars

\* C2: when exposure + settle >= interval the feasibility check is false
\* on the plan calculate_intervals computes, so a runner armed with that
\* configuration that has made its check has refused the run.
C2_InfeasibleIsRefused ==
    LET p == calculate_intervals(frames, interval, shutter_index)
    IN  (/\ RunnerPc \notin {"none", "begin"}
         /\ ~ FLt(FAdd(p.shutter_speed, settle_time), FromInt(interval)))
        => /\ ~ check_settings(p.sleep_time, p.motor_pulse, interval)
           /\ RunnerPc \in {"done", "killed"}
           /\ shots = 0

\* C3: a runner that starts with a stored plan failing check_settings counts
\* nothing down, pulses neither pin, and ends with the running flag cleared
\* and the screen set [Main].
C3_RefusedWhenCheckFails ==
    (InRun /\ RunnerPc # "none" /\ ~ StoredPlanFeasible)
    => /\ RunnerPc \in {"begin", "done", "killed"}
       /\ pause = 0
       /\ shots = 0
       /\ moves = 0
       /\ RunnerPc = "done" => (~ run_timelapse /\ screen = MainSet)

C3_Witness ==
    /\ RunnerPc = "done"
    /\ ~ StoredPlanFeasible
    /\ ~ run_timelapse
    /\ screen = MainSet

\* C4: motorPulse + exposure + settle + idleSleep = interval for the plan
\* calculate_intervals computes, whenever idleSleep >= 0.
C4_PlanSumsToInterval ==
    LET p == calculate_intervals(frames, interval, shutter_index)
    IN  ~ FLt(p.sleep_time, FromInt(0))
        => FAdd(FAdd(FAdd(p.motor_pulse, p.shutter_speed), settle_time),
                p.sleep_time)
           = FromInt(interval)

\* C5: while only frame 1 has been exposed in a run, the motor pin has not
\* been driven high.
C5_FirstFrameNoMove ==
    (InRun /\ shots = 1) => moves = 0

\* C6: no run takes more than frames exposures, and a runner that passed
\* its check and has ended with no cancel key handled and no terminate
\* signal has pulsed the shutter exactly frames times and cleared the
\* running flag.
C6_ExactlyFrameCountShots ==
    InRun =>
        /\ shots <= frames
        /\ (RunnerPc \in Finished /\ StoredPlanFeasible /\ ~ cancelled /\ run)
           => (shots = frames /\ ~ run_timelapse)

\* C7: when the runner task has ended, by returning (all frames taken, or
\* cancelled) or by dying in a sleep, frame is 1 again and the screen set
\* is [Main].
C7_FinishResetsFrame ==
    RunnerPc \in Finished => (frame = 1 /\ screen = MainSet)

\* C8: while the runner counts down or shoots, no cancel key has been
\* handled and no terminate signal has come, the watcher has not finished
\* (stated for the plans with no negative duration, whose runner cannot die
\* in a sleep, and up to the runner's own clearing of the running flag
\* after the last frame, which is what lets the watcher go).
C8_WatcherAliveDuringShoot ==
    (/\ RunnerBusy
     /\ RunnerPc # "r_fin2"
     /\ ~ cancelled
     /\ run
     /\ ~ SleepRaises(motor_pulse)
     /\ ~ SleepRaises(sleep_time))
    => WatcherPc \notin {"w_set", "done"}

\* The step in which handler h, called by get_key, returns: its assignment
\* is made in that step (the interpreter's exit is not a return).
HandlerReturns(h) ==
    \E i \in ThreadIds :
        /\ pc[i] \in HandlerPcs
        /\ active = h
        /\ pc'[i] \notin HandlerPcs \cup {"killed"}

\* C9: each +/- handler changes its own field only, by exactly 1, and not
\* at all at its limit; increase_frames always adds 1.
C9_EditLimits ==
    [][/\ HandlerReturns("increase_interval")
          => /\ interval' = IF interval = 30 THEN 30 ELSE interval + 1
             /\ UNCHANGED <<frames, shutter_index>>
       /\ HandlerReturns("decrease_interval")
          => /\ interval' = IF interval = 1 THEN 1 ELSE interval - 1
             /\ UNCHANGED <<frames, shutter_index>>
       /\ HandlerReturns("increase_frames")
          => /\ frames' = frames + 1
             /\ UNCHANGED <<interval, shutter_index>>
       /\ HandlerReturns("decrease_frames")
          => /\ frames' = IF frames = 1 THEN 1 ELSE frames - 1
             /\ UNCHANGED <<interval, shutter_index>>
       /\ HandlerReturns("increase_speed")
          => /\ shutter_index' = IF shutter_index = 33 THEN 33
                                 ELSE shutter_index + 1
             /\ UNCHANGED <<frames, interval>>
       /\ HandlerReturns("decrease_speed")
          => /\ shutter_index' = IF shutter_index = 0 THEN 0
                                 ELSE shutter_index - 1
             /\ UNCHANGED <<frames, interval>>
      ]_vars

\* increase_interval has returned at the ceiling: the only +/- call so far,
\* from a loaded interval of 30.
C9_Witness ==
    /\ threads = <<"edit_interval">>
    /\ pc[1] = "gk_while"
    /\ active = "increase_interval"
    /\ edits = 1
    /\ interval = 30

\* C10: the Configuration stays within its bounds, and only the step of a
\* +/- handler changes it.
C10_ConfigInBounds ==
    /\ [](/\ frames >= 1
          /\ interval >= 1
          /\ interval <= 30
          /\ shutter_index >= 0
          /\ shutter_index <= Len(shutter_values) - 1)
    /\ [][config' # config => \E h \in EditHandlers : HandlerReturns(h)]_vars

\* decrease_frames has returned for the last time the operator allows,
\* held at the floor of frames.
C10_Witness ==
    /\ threads = <<"edit_frames">>
    /\ pc[1] = "gk_while"
    /\ active = "decrease_frames"
    /\ edits = MaxEdits
    /\ frames = 1

\* The persisted record holds exactly the Configuration in memory.
Persisted ==
    config_file = << [frames |-> frames, interval |-> interval,
                      shutter |-> shutter_index] >>

\* C11 as stated: right after key A is handled in an edit screen, and right
\* after key C is handled in Main, the persisted record equals the
\* Configuration in memory.
C11_PersistedOnLeaveAndArm ==
    [][(\E h \in SavingHandlers \cup {"set_shoot_timelapse"} :
            HandlerReturns(h))
       => Persisted']_vars

\* C11 amended: key A in an edit screen persists the Configuration; key C
\* in Main writes nothing, so the record then equals the Configuration
\* exactly when the file held a record.
C11_PersistedOnLeave ==
    [][/\ (\E h \in SavingHandlers : HandlerReturns(h)) => Persisted'
       /\ HandlerReturns("set_shoot_timelapse")
          => /\ config_file' = config_file
             /\ Persisted' <=> config_file \notin {NoFile, EmptyFile}
      ]_vars

\* Key A has left EditFrames after an edit changed the Configuration.
C11_Witness ==
    /\ threads = <<"edit_frames">>
    /\ pc[1] = "done"
    /\ active = "set_edit_speed_screen"
    /\ screen = <<"edit_speed">>
    /\ edits > 0
    /\ Persisted

EditSets   == { <<"edit_interval">>, <<"edit_frames">>, <<"edit_speed">> }
ScreenSets == {MainSet, RunSet} \cup EditSets

\* The handler the screen of task registers for key k returns.
KeyHandled(task, k) ==
    threads = <<task>> /\ HandlerReturns(KeyMap(task)[k])

\* The steps that may change the screen set: the navigation keys, arming,
\* and the runner ending its run.
ScreenStep ==
    \/ KeyHandled("main_screen", "A") /\ screen' = <<"edit_interval">>
    \/ KeyHandled("main_screen", "C") /\ screen' = RunSet
    \/ KeyHandled("edit_interval", "A") /\ screen' = <<"edit_frames">>
    \/ KeyHandled("edit_frames", "A") /\ screen' = <<"edit_speed">>
    \/ KeyHandled("edit_speed", "A") /\ screen' = MainSet
    \/ InRun /\ RunnerPc # "done" /\ RunnerPc' = "done" /\ screen' = MainSet

\* Keys C and D in an edit screen, read and handled, leave the screen set
\* alone.
EditKeysKeepScreen ==
    /\ (key' \in {"C", "D"} /\ screen \in EditSets) => screen' = screen
    /\ \A task \in {"edit_interval", "edit_frames", "edit_speed"} :
           \A k \in {"C", "D"} :
               KeyHandled(task, k) => screen' = screen

\* C12 as stated: the screen set is one of the five, changes only by the
\* listed steps, C and D never change it in an edit screen, and a poll that
\* reads key B changes nothing of the program's state.
C12_ScreensAndKeyB ==
    /\ [](screen \in ScreenSets)
    /\ [][/\ screen' # screen => ScreenStep
          /\ EditKeysKeepScreen
          /\ key' = "B"
             => UNCHANGED <<config, plan, screen, flags, disp, pins,
                            config_file>>
         ]_vars

\* C12 amended: as above, but key B calls no handler and changes neither
\* screen nor Configuration; like any key it clears the active handler.
C12_ScreensAndKeyBKeyUp ==
    /\ [](screen \in ScreenSets)
    /\ [][/\ screen' # screen => ScreenStep
          /\ EditKeysKeepScreen
          /\ key' = "B"
             => /\ invoked' = "none"
                /\ active' = NoHandler
                /\ UNCHANGED <<config, plan, screen, flags, key_handler,
                               pins, config_file>>
         ]_vars

\* Key A has taken EditFrames to EditSpeed.
C12_Witness ==
    /\ threads = <<"edit_frames">>
    /\ pc[1] = "done"
    /\ active = "set_edit_speed_screen"
    /\ config_file # NoFile
    /\ screen = <<"edit_speed">>

\* A step in which some task completes one pass of get_key's loop (and is
\* not ended by the interpreter's exit).
PollStep ==
    \E i \in ThreadIds : pc[i] = "gk_poll" /\ pc'[i] \notin {"gk_poll", "killed"}

\* C13: a poll invokes a handler in exactly two cases, a registered key read
\* with no active handler (it becomes active and is invoked) and no key read
\* with an active handler (it is invoked again); a key read while a handler
\* is active only clears it; no key with no active handler, or an
\* unregistered key, invokes nothing.
C13_GetKeyDispatch ==
    [][PollStep =>
         /\ (key' # NoKey /\ active = NoHandler /\ key' \in DOMAIN key_handler)
            => (active' = key_handler[key'] /\ invoked' = key_handler[key'])
         /\ (key' = NoKey /\ active # NoHandler)
            => (active' = active /\ invoked' = active)
         /\ (key' # NoKey /\ active # NoHandler)
            => (active' = NoHandler /\ invoked' = "none")
         /\ (key' = NoKey /\ active = NoHandler)
            => (active' = NoHandler /\ invoked' = "none")
         /\ (key' # NoKey /\ active = NoHandler
             /\ key' \notin DOMAIN key_handler)
            => (active' = NoHandler /\ invoked' = "none")
      ]_vars

\* A poll read no key while increase_speed was active and called it again,
\* after its first call had returned.
C13_Witness ==
    /\ threads = <<"edit_speed">>
    /\ pc[1] = "h_call"
    /\ key = NoKey
    /\ active = "increase_speed"
    /\ invoked = "increase_speed"
    /\ edits = 1

\* C14: a pin is high only while the runner is inside the pulse that raised
\* it, so the runner never reads the running flag, changes the screen set or
\* finishes with a pin high (the coordinator's exit is left aside here).
C14_PulsesComplete ==
    mpc \notin {"exited", "uncaught"} =>
        /\ shutter_pin = "HIGH" => RunnerPc = "exposing"
        /\ motor_pin = "HIGH" => RunnerPc = "moving"

\* The runner of the current run has finished and the running flag is false.
RunnerOver  == InRun /\ pc[1] \in Finished /\ ~run_timelapse
\* The terminate signal has been received.
Interrupted ==
    mpc \in {"caught", "except", "sys_exit", "exited", "uncaught"}

\* C15: under fair scheduling, once the runner has finished with the running
\* flag false, the watcher finishes whatever the keypad reads, the join of
\* the set completes, and the coordinator launches the next screen set,
\* which resets the thread positions (unless the terminate signal arrives).
C15_WatcherFinishes ==
    RunnerOver ~> (pc[1] = "none" \/ Interrupted)

\* A run has completed, its last frame taken, and the watcher, which handled
\* no cancel key, has returned too.
C15_Witness ==
    /\ RunnerOver
    /\ pc[1] = "done"
    /\ shots = frames
    /\ ~cancelled
    /\ pc[2] = "done"
    /\ wait_for_key

\* C16: the joins start only when every task of the set has been started;
\* the pool shrinks only from its head, in declaration order, and only when
\* that head has terminated; and whenever the coordinator is back at its
\* loop, about to launch a set, no task is alive.
C16_JoinAllInOrder ==
    /\ [](mpc = "joining" =>
             /\ started = Len(threads)
             /\ \A i \in 1..Len(threads) : pc[i] # "none")
    /\ []((mpc = "while_run" \/ (mpc = "joining" /\ pool = << >>))
          => \A i \in ThreadIds : ~Alive(i))
    /\ [][pool' # pool /\ mpc = "joining"
            => /\ pc[Head(pool)] \in Finished
               /\ pool' = Tail(pool)
               /\ \A i \in 1..Len(pool) : pool[i] = Head(pool) + i - 1
         ]_vars

\* The watcher has finished first and the coordinator still waits for the
\* runner, which is exposing.
C16_Witness ==
    /\ InRun
    /\ mpc = "joining"
    /\ pool = <<1, 2>>
    /\ pc[2] = "done"
    /\ pc[1] = "exposing"

\* The except clause has taken a terminate signal that was raised while
\* the coordinator was in the join loop of start_threads, between the last
\* append and the return.
InterruptedInJoin ==
    /\ mpc \in {"caught", "except", "sys_exit", "exited"}
    /\ raised_at = "joining"

\* C17: once the coordinator has exited by sys.exit() on a terminate signal
\* that arrived while it was joining a screen set, the keep-running flag is
\* false, and neither pin is high.
C17_CleanShutdown ==
    (mpc = "exited" /\ InterruptedInJoin) =>
        /\ ~ run
        /\ shutter_pin = "LOW"
        /\ motor_pin = "LOW"

\* C18: whenever the Main screen is launched after a run has ended (the
\* running flag is false from then on), wait_for_key is true.
C18_MainAcceptsKeys ==
    (threads = MainSet /\ mpc \in {"starting", "joining"} /\ run
     /\ ~run_timelapse)
    => wait_for_key

\* The stored plan is the one calculate_intervals yields for the current
\* Configuration.
PlanCurrent ==
    LET p == PlanFor(frames, interval, shutter_index)
    IN  /\ motor_pulse = p.motor_pulse
        /\ sleep_time = p.sleep_time
        /\ shutter_speed = p.shutter_speed

\* C19: from the moment key C on Main arms a run and for as long as its
\* runner exists, the stored plan is the one calculate_intervals yields for
\* the current frames, interval and shutter_index.
C19_PlanCurrentWhenArmed ==
    (screen = RunSet \/ (InRun /\ RunnerPc # "none")) => PlanCurrent

\* A runner starts after the operator raised the interval twice from its
\* default in the menu.
C19_Witness ==
    /\ RunnerPc = "begin"
    /\ edits = MaxEdits
    /\ interval = DefaultInterval + 2
    /\ PlanCurrent

\* C20 as stated: for every Configuration with frames >= 1, interval in
\* 1..30 and a valid shutter index, the plan of calculate_intervals has
\* sleep_time >= settle_time and passes check_settings, the stored plan
\* passes it too, and the runner's test never takes the refusal branch.
\* The doubles round: frames 1, interval 1, shutter 1/10 gives a
\* sleep_time of 0.09999999999999995.
C20_PlanAlwaysFeasible ==
    /\ [](LET p == calculate_intervals(frames, interval, shutter_index)
          IN  /\ ~ FLt(p.sleep_time, settle_time)
              /\ check_settings(p.sleep_time, p.motor_pulse, interval))
    /\ [](StoredPlanFeasible)
    /\ [][(RunnerPc = "begin" /\ RunnerPc' # "begin")
            => (RunnerPc' = "countdown" /\ screen' = RunSet)]_vars

\* 2^-49 s, above the rounding error three subtractions of values below 32
\* leave in sleep_time.
RoundingSlack == [neg |-> FALSE, mag |-> <<2^7, 0, 0>>]

\* C20: for every Configuration with frames >= 1, interval in 1..30 and a
\* valid shutter index, the plan of calculate_intervals has a sleep_time
\* that is positive and not below settle_time by more than 2^-49 s, it
\* passes check_settings, the stored plan passes it too, and the runner's
\* test never takes the refusal branch.
C20_PlanFeasibleUpToRounding ==
    /\ [](LET p == calculate_intervals(frames, interval, shutter_index)
          IN  /\ FGt(p.sleep_time, FromInt(0))
              /\ ~ FGt(FSub(settle_time, p.sleep_time), RoundingSlack)
              /\ check_settings(p.sleep_time, p.motor_pulse, interval))
    /\ [](StoredPlanFeasible)
    /\ [][(RunnerPc = "begin" /\ RunnerPc' # "begin")
            => (RunnerPc' = "countdown" /\ screen' = RunSet)]_vars

\* The runner has passed its test with an exposure as long as the interval.
C20_Witness ==
    /\ RunnerPc = "countdown"
    /\ frames = DefaultFrames
    /\ interval = DefaultInterval
    /\ shutter_speed = FromInt(interval)
    /\ FLt(motor_pulse, FromInt(0))

====
